---- MODULE Spec2Model ----
(***************************************************************************)
(* Data access and resilience layer of the dashboard                       *)
(* (utils/data_loader.py, config/settings.py).                             *)
(*                                                                         *)
(* Text whose characters matter (item identifiers) is a sequence of        *)
(* one-character strings; other text is an opaque string.  A table is a    *)
(* record [cols, rows]: cols is the sequence of column names, rows the     *)
(* sequence of rows, each row a record over the columns.                   *)
(*                                                                         *)
(* A payload is held in the state as a handle: [origin |-> "file",         *)
(* content |-> c] denotes the table the loader builds from file content c, *)
(* [origin |-> "dummy", seed |-> s] the table the fallback generator       *)
(* builds when the random source yields draw s.  TableOf gives the table.  *)
(***************************************************************************)
EXTENDS Integers, Sequences, FiniteSets, TLC

VARIABLES files, cache, now, last, cleared, ticks, writes, loads, sessions

vars == <<files, cache, now, last, cleared, ticks, writes, loads, sessions>>

-----------------------------------------------------------------------------
(* Configuration registry: config/settings.py                              *)

CACHE_TTL == 3600

CALENDAR_FILE == "calendar.csv"
SALES_TRAIN_FILE == "sales_train_validation.csv"
SALES_EVAL_FILE == "sales_train_evaluation.csv"
SELL_PRICES_FILE == "sell_prices.csv"
TEST_SUMMARY_FILE == "test_results_summary.csv"
MODEL_PERFORMANCE_FILE == "model_performance_by_pattern.csv"
BEST_MODELS_FILE == "best_models_by_pattern.csv"
SEASONAL_EXAMPLES_FILE == "seasonal_pattern_examples.csv"
ZERO_INFLATION_EXAMPLES_FILE == "zero_inflation_examples.csv"
VOLUME_EXAMPLES_FILE == "volume_distribution_examples.csv"
SNAP_EXAMPLES_FILE == "snap_pattern_examples.csv"

Paths ==
  { CALENDAR_FILE, SALES_TRAIN_FILE, SALES_EVAL_FILE, SELL_PRICES_FILE,
    TEST_SUMMARY_FILE, MODEL_PERFORMANCE_FILE, BEST_MODELS_FILE,
    SEASONAL_EXAMPLES_FILE, ZERO_INFLATION_EXAMPLES_FILE,
    VOLUME_EXAMPLES_FILE, SNAP_EXAMPLES_FILE }

-----------------------------------------------------------------------------
(* Bounds of the exploration                                               *)

MaxTicks == 1
MaxWrites == 1
MaxLoads == 2
MaxSeed == 2
MaxSessions == 3

Seeds == 1..MaxSeed

-----------------------------------------------------------------------------
(* Text                                                                    *)

FOODS == <<"F", "O", "O", "D", "S">>

NaN == <<"NaN">>

IsNaN(cell) == cell = NaN

startswith(s, prefix) ==
  /\ Len(s) >= Len(prefix)
  /\ SubSeq(s, 1, Len(prefix)) = prefix

Range(seq) == { seq[i] : i \in DOMAIN seq }

-----------------------------------------------------------------------------
(* Source files: the conditions a file on disk can be in.  read_csv gives  *)
(* what pandas.read_csv does on each: the exception it raises, or the      *)
(* parsed table.                                                           *)

ITEM_F1 == FOODS \o <<"_", "1">>
ITEM_F2 == FOODS \o <<"_", "2">>
ITEM_H1 == <<"H", "O", "B", "B", "I", "E", "S", "_", "1">>
ITEM_FOOD == <<"F", "O", "O", "D", "_", "1">>
ITEM_LOWER == <<"f", "o", "o", "d", "s", "_", "1">>

SalesCols == <<"item_id", "dept_id", "cat_id", "store_id", "state_id", "d_1", "d_2">>

SalesRow(item, store, v1, v2) ==
  [item_id |-> item, dept_id |-> "FOODS_3", cat_id |-> "FOODS",
   store_id |-> store, state_id |-> "CA", d_1 |-> v1, d_2 |-> v2]

CalendarCols ==
  <<"d", "date", "wm_yr_wk", "weekday", "wday", "month", "year",
    "snap_CA", "snap_TX", "snap_WI">>

CalendarRow(key, text, dow) ==
  [d |-> key, date |-> text, wm_yr_wk |-> 11101, weekday |-> "Saturday",
   wday |-> dow, month |-> 1, year |-> 2011,
   snap_CA |-> 0, snap_TX |-> 1, snap_WI |-> 0]

Without(row, col) == [c \in (DOMAIN row) \ {col} |-> row[c]]

WithoutCol(table, col) ==
  [cols |-> SelectSeq(table.cols, LAMBDA c : c # col),
   rows |-> [i \in DOMAIN table.rows |-> Without(table.rows[i], col)]]

Raised(e) == [exc |-> e, table |-> [cols |-> <<>>, rows |-> <<>>]]

Parsed(t) == [exc |-> "none", table |-> t]

SALES_FOODS ==
  [cols |-> SalesCols,
   rows |-> <<SalesRow(ITEM_F1, "CA_1", 0, 3), SalesRow(ITEM_F2, "CA_1", 2, 0)>>]

SALES_MIXED ==
  [cols |-> SalesCols,
   rows |-> <<SalesRow(ITEM_H1, "CA_1", 1, 1), SalesRow(ITEM_F1, "CA_1", 0, 3),
              SalesRow(ITEM_FOOD, "CA_1", 4, 4), SalesRow(ITEM_LOWER, "TX_1", 5, 0)>>]

SALES_HOBBIES ==
  [cols |-> SalesCols,
   rows |-> <<SalesRow(ITEM_H1, "CA_1", 1, 1), SalesRow(ITEM_FOOD, "CA_2", 0, 0)>>]

SALES_NEGATIVE ==
  [cols |-> SalesCols,
   rows |-> <<SalesRow(ITEM_F1, "CA_1", -4, 3)>>]

SALES_NAN_ITEM ==
  [cols |-> SalesCols,
   rows |-> <<SalesRow(ITEM_F1, "CA_1", 0, 3), SalesRow(NaN, "CA_1", 2, 0)>>]

SALES_EXTRA ==
  [cols |-> <<"id">> \o SalesCols,
   rows |-> <<[id |-> "FOODS_1_CA_1_validation", item_id |-> ITEM_F1,
               dept_id |-> "FOODS_3", cat_id |-> "FOODS", store_id |-> "CA_1",
               state_id |-> "CA", d_1 |-> 0, d_2 |-> 3]>>]

CALENDAR_VALID ==
  [cols |-> CalendarCols,
   rows |-> <<CalendarRow("d_1", <<2011, 1, 29>>, 1),
              CalendarRow("d_2", <<2011, 1, 30>>, 2)>>]

CALENDAR_BAD_DATE ==
  [cols |-> CalendarCols,
   rows |-> <<CalendarRow("d_1", <<2011, 1, 29>>, 1),
              CalendarRow("d_2", <<>>, 2)>>]

CALENDAR_EXTRA ==
  [cols |-> CalendarCols \o <<"event_name_1">>,
   rows |-> <<[d |-> "d_1", date |-> <<2011, 1, 29>>, wm_yr_wk |-> 11101,
               weekday |-> "Saturday", wday |-> 1, month |-> 1, year |-> 2011,
               snap_CA |-> 0, snap_TX |-> 1, snap_WI |-> 0,
               event_name_1 |-> "SuperBowl"]>>]

PRICES_MIXED ==
  [cols |-> <<"store_id", "item_id", "wm_yr_wk", "sell_price">>,
   rows |-> <<[store_id |-> "CA_1", item_id |-> ITEM_F1, wm_yr_wk |-> 11101, sell_price |-> 2],
              [store_id |-> "CA_1", item_id |-> ITEM_H1, wm_yr_wk |-> 11101, sell_price |-> 9]>>]

TESTS_VALID ==
  [cols |-> <<"test_name", "status", "description", "score">>,
   rows |-> <<[test_name |-> "Test_1", status |-> "PASS", description |-> "Seasonal test", score |-> 85],
              [test_name |-> "Test_2", status |-> "FAIL", description |-> "Volume test", score |-> 45]>>]

PerfCols == <<"model_name", "pattern_type", "mae", "rmse", "mape", "r2_score">>

PerfRow(model, m) ==
  [model_name |-> model, pattern_type |-> "Seasonal", mae |-> m,
   rmse |-> 3600, mape |-> 250, r2_score |-> 450]

PERF_VALID ==
  [cols |-> PerfCols, rows |-> <<PerfRow("Naive", 4200), PerfRow("LightGBM", 2300)>>]

PERF_NEGATIVE ==
  [cols |-> PerfCols, rows |-> <<PerfRow("Naive", -1000), PerfRow("LightGBM", 2300)>>]

PERF_EXTRA ==
  [cols |-> PerfCols \o <<"training_time">>,
   rows |-> <<[model_name |-> "Naive", pattern_type |-> "Seasonal", mae |-> 4200,
               rmse |-> 3600, mape |-> 250, r2_score |-> 450, training_time |-> 100]>>]

BEST_VALID ==
  [cols |-> <<"pattern_type", "best_model", "mae", "improvement">>,
   rows |-> <<[pattern_type |-> "Seasonal", best_model |-> "LightGBM", mae |-> 2500, improvement |-> 150]>>]

PATTERN_VALID ==
  [cols |-> <<"item_id", "store_id", "pattern_strength", "avg_sales", "zero_rate">>,
   rows |-> <<[item_id |-> ITEM_F1, store_id |-> "CA_1", pattern_strength |-> 700,
               avg_sales |-> 5000, zero_rate |-> 400]>>]

HeaderOnly(table) == [cols |-> table.cols, rows |-> <<>>]

TableContents ==
  { "sales_foods", "sales_mixed", "sales_hobbies", "sales_negative",
    "sales_nan_item", "sales_extra", "sales_header", "sales_no_item",
    "sales_no_store",
    "calendar_valid", "calendar_bad_date", "calendar_extra",
    "calendar_header", "calendar_no_date", "calendar_no_wday", "calendar_late",
    "prices_mixed", "tests_valid", "tests_no_status", "tests_header",
    "perf_valid", "perf_negative", "perf_extra", "perf_header",
    "perf_no_mae", "perf_no_rmse", "best_valid", "pattern_valid" }

Contents == { "missing", "zero_bytes", "malformed", "unreadable" } \cup TableContents

read_csv(c) ==
  CASE c = "missing" -> Raised("FileNotFoundError")
    [] c = "zero_bytes" -> Raised("EmptyDataError")
    [] c = "malformed" -> Raised("ParserError")
    [] c = "unreadable" -> Raised("PermissionError")
    [] c = "sales_foods" -> Parsed(SALES_FOODS)
    [] c = "sales_mixed" -> Parsed(SALES_MIXED)
    [] c = "sales_hobbies" -> Parsed(SALES_HOBBIES)
    [] c = "sales_negative" -> Parsed(SALES_NEGATIVE)
    [] c = "sales_nan_item" -> Parsed(SALES_NAN_ITEM)
    [] c = "sales_extra" -> Parsed(SALES_EXTRA)
    [] c = "sales_header" -> Parsed(HeaderOnly(SALES_FOODS))
    [] c = "sales_no_item" -> Parsed(WithoutCol(SALES_FOODS, "item_id"))
    [] c = "sales_no_store" -> Parsed(WithoutCol(SALES_FOODS, "store_id"))
    [] c = "calendar_valid" -> Parsed(CALENDAR_VALID)
    [] c = "calendar_bad_date" -> Parsed(CALENDAR_BAD_DATE)
    [] c = "calendar_extra" -> Parsed(CALENDAR_EXTRA)
    [] c = "calendar_header" -> Parsed(HeaderOnly(CALENDAR_VALID))
    [] c = "calendar_no_date" -> Parsed(WithoutCol(CALENDAR_VALID, "date"))
    [] c = "calendar_no_wday" -> Parsed(WithoutCol(CALENDAR_VALID, "wday"))
    [] c = "calendar_late" ->
         Parsed([cols |-> CalendarCols, rows |-> Tail(CALENDAR_VALID.rows)])
    [] c = "prices_mixed" -> Parsed(PRICES_MIXED)
    [] c = "tests_valid" -> Parsed(TESTS_VALID)
    [] c = "tests_no_status" -> Parsed(WithoutCol(TESTS_VALID, "status"))
    [] c = "tests_header" -> Parsed(HeaderOnly(TESTS_VALID))
    [] c = "perf_valid" -> Parsed(PERF_VALID)
    [] c = "perf_negative" -> Parsed(PERF_NEGATIVE)
    [] c = "perf_extra" -> Parsed(PERF_EXTRA)
    [] c = "perf_header" -> Parsed(HeaderOnly(PERF_VALID))
    [] c = "perf_no_mae" -> Parsed(WithoutCol(PERF_VALID, "mae"))
    [] c = "perf_no_rmse" -> Parsed(WithoutCol(PERF_VALID, "rmse"))
    [] c = "best_valid" -> Parsed(BEST_VALID)
    [] c = "pattern_valid" -> Parsed(PATTERN_VALID)

exists(c) == c # "missing"

(* Every exception class raised here derives from Exception, so an         *)
(* `except Exception` clause catches it.                                   *)
ExceptionClasses ==
  { "FileNotFoundError", "PermissionError", "EmptyDataError", "ParserError",
    "KeyError", "ValueError", "AttributeError" }

HasCol(table, col) == col \in Range(table.cols)

-----------------------------------------------------------------------------
(* Python text and date primitives, computed on the representation above.  *)
(* A date is held as the number of days since 1970-01-01; the text of a    *)
(* date in a file is <<year, month, day>>, and <<>> when it is not a date. *)

DigitChars == <<"0", "1", "2", "3", "4", "5", "6", "7", "8", "9">>

RECURSIVE str(_)
str(n) ==
  IF n < 10 THEN <<DigitChars[n + 1]>>
  ELSE str(n \div 10) \o <<DigitChars[(n % 10) + 1]>>

RECURSIVE zfill(_, _)
zfill(s, width) == IF Len(s) >= width THEN s ELSE zfill(<<"0">> \o s, width)

RECURSIVE replace(_, _, _)
replace(s, old, new) ==
  IF Len(s) < Len(old) \/ Len(old) = 0 THEN s
  ELSE IF SubSeq(s, 1, Len(old)) = old
       THEN new \o replace(SubSeq(s, Len(old) + 1, Len(s)), old, new)
       ELSE <<s[1]>> \o replace(SubSeq(s, 2, Len(s)), old, new)

Chars_validation == <<"_", "v", "a", "l", "i", "d", "a", "t", "i", "o", "n">>

DaysFromCivil(y, m, d) ==
  LET yy == IF m <= 2 THEN y - 1 ELSE y
      era == yy \div 400
      yoe == yy - era * 400
      mp == IF m > 2 THEN m - 3 ELSE m + 9
      doy == (153 * mp + 2) \div 5 + d - 1
      doe == yoe * 365 + yoe \div 4 - yoe \div 100 + doy
  IN  era * 146097 + doe - 719468

CivilFromDays(z) ==
  LET zz == z + 719468
      era == zz \div 146097
      doe == zz - era * 146097
      yoe == (doe - doe \div 1460 + doe \div 36524 - doe \div 146096) \div 365
      doy == doe - (365 * yoe + yoe \div 4 - yoe \div 100)
      mp == (5 * doy + 2) \div 153
      d == doy - (153 * mp + 2) \div 5 + 1
      m == IF mp < 10 THEN mp + 3 ELSE mp - 9
      y == yoe + era * 400 + (IF m <= 2 THEN 1 ELSE 0)
  IN  [year |-> y, month |-> m, day |-> d]

(* Monday = 0 ... Sunday = 6; 1970-01-01 was a Thursday. *)
dayofweek(z) == (z + 3) % 7

DayNames ==
  <<"Monday", "Tuesday", "Wednesday", "Thursday", "Friday", "Saturday", "Sunday">>

day_name(z) == DayNames[dayofweek(z) + 1]

IsDateText(text) ==
  /\ Len(text) = 3
  /\ text[2] \in 1..12
  /\ text[3] \in 1..31
  /\ CivilFromDays(DaysFromCivil(text[1], text[2], text[3])) =
       [year |-> text[1], month |-> text[2], day |-> text[3]]

(* pd.to_datetime on a column: raises on the first text that is no date. *)
to_datetime(table, col) ==
  IF \E i \in DOMAIN table.rows : ~IsDateText(table.rows[i][col])
  THEN Raised("ValueError")
  ELSE Parsed([cols |-> table.cols,
               rows |-> [i \in DOMAIN table.rows |->
                          [c \in DOMAIN table.rows[i] |->
                            IF c = col
                            THEN LET t == table.rows[i][c]
                                 IN  DaysFromCivil(t[1], t[2], t[3])
                            ELSE table.rows[i][c]]]])

(* The end date left out, as range() leaves out its stop. *)
date_range_exclusive(start, end) ==
  [i \in 1..(DaysFromCivil(end[1], end[2], end[3])
              - DaysFromCivil(start[1], start[2], start[3])) |->
     DaysFromCivil(start[1], start[2], start[3]) + i - 1]

(* pd.date_range(start, end, freq='D'): both ends included *)
date_range(start, end) ==
  [i \in 1..(DaysFromCivil(end[1], end[2], end[3])
              - DaysFromCivil(start[1], start[2], start[3]) + 1) |->
     DaysFromCivil(start[1], start[2], start[3]) + i - 1]

-----------------------------------------------------------------------------
(* The random source.  The generators are not seeded, so what a draw       *)
(* yields is not determined by the program: a seed stands for one state of *)
(* the global generator, and the n-th draw of a call made in that state    *)
(* picks one of the outcomes the distribution allows.                      *)

Pick(seed, n, outcomes) == outcomes[((seed * 7 + n * 3) % Len(outcomes)) + 1]

(* np.random.choice([0, 1], p=[0.67, 0.33]) *)
ChoiceOutcomes == <<0, 1, 0>>

(* np.random.poisson(5): a non-negative integer *)
PoissonOutcomes == <<5, 0, 3, 12, 7>>

(* np.random.uniform(1, 10), in thousandths *)
PriceOutcomes == <<1000, 5500, 9999>>

(* np.random.normal(0, 0.2), in millionths: zero, one and eleven standard  *)
(* deviations on either side (the polar method on 53-bit uniforms yields   *)
(* up to twelve).  normal(0, 0.3) is taken as 3/2 of such a draw.          *)
NormalOutcomes == <<0, -200000, 200000, -2200000, 2200000>>

(* np.random.uniform(0.15, 0.45), in millionths *)
MapeOutcomes == <<150000, 300400, 449999>>

(* np.random.uniform(0.3, 0.85), in millionths *)
R2Outcomes == <<300000, 575500, 849999>>

(* np.random.uniform(lo, hi) for the pattern examples, in thousandths *)
StrengthOutcomes == <<500, 750, 999>>

AvgSalesOutcomes == <<1000, 10500, 19999>>

ZeroRateOutcomes == <<300, 550, 799>>

(* round(x, 3) of a value given in millionths, as thousandths *)
round3(micro) == (micro + 500) \div 1000

Max(a, b) == IF a >= b THEN a ELSE b

-----------------------------------------------------------------------------
(* Synthetic data generator: DataLoader._create_dummy_*                    *)
(* Fractions are held in thousandths (0.85 is 850).                        *)

AVAILABLE_MODELS ==
  <<"Naive", "Moving Average", "Linear Regression", "Poisson", "LightGBM">>

PATTERN_TYPES ==
  <<"Seasonal", "Zero-Inflation", "Volume Distribution", "SNAP Effects">>

MIN_DATE == <<2011, 1, 29>>

MAX_DATE == <<2016, 6, 19>>

DayCol(i) == "d_" \o ToString(i)

create_dummy_calendar(seed) ==
  LET dates == date_range(MIN_DATE, MAX_DATE)
      n == Len(dates)
  IN  [cols |-> CalendarCols,
       rows |-> [i \in 1..n |->
                  [d |-> DayCol(i),
                   date |-> dates[i],
                   wm_yr_wk |-> 11101 + (i - 1),
                   weekday |-> day_name(dates[i]),
                   wday |-> dayofweek(dates[i]) + 1,
                   month |-> CivilFromDays(dates[i]).month,
                   year |-> CivilFromDays(dates[i]).year,
                   snap_CA |-> Pick(seed, i, ChoiceOutcomes),
                   snap_TX |-> Pick(seed, n + i, ChoiceOutcomes),
                   snap_WI |-> Pick(seed, 2 * n + i, ChoiceOutcomes)]]]

n_products == 100

N_SALES_DAYS == 1913

SalesIdCols == <<"item_id", "dept_id", "cat_id", "store_id", "state_id">>

DummyProduct(i) ==
  FOODS \o <<"_", "3", "_">> \o zfill(str(i), 3)
        \o <<"_", "C", "A", "_", "1">> \o Chars_validation

DayCols == [i \in 1..N_SALES_DAYS |-> DayCol(i)]

(* The position of a day column among the day columns. *)
DayIndex == [c \in Range(DayCols) |-> CHOOSE j \in 1..N_SALES_DAYS : DayCols[j] = c]

create_dummy_sales(seed) ==
  LET row(p) ==
        [c \in Range(SalesIdCols) \cup Range(DayCols) |->
           CASE c = "item_id" -> replace(DummyProduct(p), Chars_validation, <<>>)
             [] c = "dept_id" -> "FOODS_3"
             [] c = "cat_id" -> "FOODS"
             [] c = "store_id" -> "CA_1"
             [] c = "state_id" -> "CA"
             [] OTHER ->
                  Pick(seed, (p - 1) * N_SALES_DAYS + DayIndex[c], PoissonOutcomes)]
  IN  [cols |-> SalesIdCols \o DayCols,
       rows |-> [p \in 1..n_products |-> row(p)]]

create_dummy_prices(seed) ==
  [cols |-> <<"store_id", "item_id", "wm_yr_wk", "sell_price">>,
   rows |-> [i \in 1..100 |->
              [store_id |-> "CA_1",
               item_id |-> FOODS \o <<"_", "3", "_">> \o zfill(str(i), 3),
               wm_yr_wk |-> 11101,
               sell_price |-> Pick(seed, i, PriceOutcomes)]]]

DummyTestStatus ==
  <<"PASS", "PASS", "PASS", "PASS", "PASS", "PASS", "PASS", "FAIL", "FAIL", "FAIL">>

DummyTestDescription ==
  <<"Seasonal test", "Volume test", "Zero inflation test",
    "Seasonal test", "Volume test", "Zero inflation test",
    "Seasonal test", "Volume test", "Zero inflation test", "SNAP test">>

DummyTestScore == <<850, 920, 780, 880, 910, 760, 820, 450, 520, 380>>

(* The status list with one PASS fewer. *)
create_dummy_test_results_six_pass ==
  [cols |-> <<"test_name", "status", "description", "score">>,
   rows |-> [i \in 1..10 |->
              [test_name |-> "Test_" \o ToString(i),
               status |-> IF i <= 6 THEN "PASS" ELSE "FAIL",
               description |-> DummyTestDescription[i],
               score |-> DummyTestScore[i]]]]

create_dummy_test_results ==
  [cols |-> <<"test_name", "status", "description", "score">>,
   rows |-> [i \in 1..10 |->
              [test_name |-> "Test_" \o ToString(i),
               status |-> DummyTestStatus[i],
               description |-> DummyTestDescription[i],
               score |-> DummyTestScore[i]]]]

(* base_mae and pattern_multiplier, in thousandths *)
base_mae(model) ==
  CASE model = "Naive" -> 4500
    [] model = "Moving Average" -> 3800
    [] model = "Linear Regression" -> 3200
    [] model = "Poisson" -> 2900
    [] model = "LightGBM" -> 2300
    [] OTHER -> 3500

pattern_multiplier(pattern) ==
  CASE pattern = "Seasonal" -> 900
    [] pattern = "Zero-Inflation" -> 1100
    [] pattern = "Volume Distribution" -> 1000
    [] pattern = "SNAP Effects" -> 1050
    [] OTHER -> 1000

MinimalModelPerformance ==
  [cols |-> PerfCols,
   rows |-> <<[model_name |-> "Naive", pattern_type |-> "Seasonal", mae |-> 4200,
               rmse |-> 6100, mape |-> 250, r2_score |-> 450],
              [model_name |-> "Linear Regression", pattern_type |-> "Seasonal", mae |-> 3100,
               rmse |-> 4800, mape |-> 200, r2_score |-> 650],
              [model_name |-> "LightGBM", pattern_type |-> "Seasonal", mae |-> 2300,
               rmse |-> 3600, mape |-> 150, r2_score |-> 780]>>]

(* The body of the inner loop: the row appended for (model, pattern) when  *)
(* the four draws yield e_mae, e_rmse (normal noise) and u_mape, u_r2       *)
(* (uniform), all in millionths.                                           *)
dummy_performance_row(model, pattern, e_mae, e_rmse, u_mape, u_r2) ==
  LET raw == base_mae(model) * pattern_multiplier(pattern) + e_mae
      mae == Max(500000, raw)
  IN  [model_name |-> model,
       pattern_type |-> pattern,
       mae |-> round3(mae),
       rmse |-> round3((mae * 14) \div 10 + e_rmse),
       mape |-> round3(u_mape),
       r2_score |-> round3(Max(100000, u_r2))]

(* One row per position of the shorter list: zip(models, patterns) instead *)
(* of the nested loops.                                                     *)
create_dummy_model_performance_paired(seed) ==
  [cols |-> PerfCols,
   rows |-> [k \in 1..Len(PATTERN_TYPES) |->
              dummy_performance_row(AVAILABLE_MODELS[k], PATTERN_TYPES[k],
                                    Pick(seed, 4 * k, NormalOutcomes),
                                    (Pick(seed, 4 * k + 1, NormalOutcomes) * 3) \div 2,
                                    Pick(seed, 4 * k + 2, MapeOutcomes),
                                    Pick(seed, 4 * k + 3, R2Outcomes))]]

create_dummy_model_performance(seed) ==
  LET np == Len(PATTERN_TYPES)
      cell(k) ==
        dummy_performance_row(AVAILABLE_MODELS[((k - 1) \div np) + 1],
                              PATTERN_TYPES[((k - 1) % np) + 1],
                              Pick(seed, 4 * k, NormalOutcomes),
                              (Pick(seed, 4 * k + 1, NormalOutcomes) * 3) \div 2,
                              Pick(seed, 4 * k + 2, MapeOutcomes),
                              Pick(seed, 4 * k + 3, R2Outcomes))
      data == [k \in 1..(Len(AVAILABLE_MODELS) * np) |-> cell(k)]
  IN  IF Len(data) = 0 THEN MinimalModelPerformance
      ELSE [cols |-> PerfCols, rows |-> data]

create_dummy_pattern_examples(pattern_type, seed) ==
  [cols |-> <<"item_id", "store_id", "pattern_strength", "avg_sales", "zero_rate">>,
   rows |-> [i \in 1..20 |->
              [item_id |-> FOODS \o <<"_", "3", "_">> \o zfill(str(i), 3),
               store_id |-> "CA_1",
               pattern_strength |-> Pick(seed, i, StrengthOutcomes),
               avg_sales |-> Pick(seed, 20 + i, AvgSalesOutcomes),
               zero_rate |-> Pick(seed, 40 + i, ZeroRateOutcomes)]]]

DummyBestModel == <<"LightGBM", "Linear Regression", "Poisson", "Moving Average">>

DummyBestMae == <<2500, 3100, 2800, 4200>>

DummyBestImprovement == <<150, 80, 120, 50>>

create_dummy_best_models ==
  [cols |-> <<"pattern_type", "best_model", "mae", "improvement">>,
   rows |-> [i \in 1..Len(PATTERN_TYPES) |->
              [pattern_type |-> PATTERN_TYPES[i],
               best_model |-> DummyBestModel[i],
               mae |-> DummyBestMae[i],
               improvement |-> DummyBestImprovement[i]]]]

(* The generated tables, one per state of the random source. *)
DummyCalendar == [s \in Seeds |-> create_dummy_calendar(s)]

DummySales == [s \in Seeds |-> create_dummy_sales(s)]

DummyPrices == [s \in Seeds |-> create_dummy_prices(s)]

DummyModelPerformance == [s \in Seeds |-> create_dummy_model_performance(s)]

DummyTestResults == create_dummy_test_results

DummyBestModels == create_dummy_best_models

-----------------------------------------------------------------------------
(* Cached loader: the body of each DataLoader.load_* method, given the     *)
(* content c of the file it reads and the state of the random source.      *)
(* The result says whether an exception left the method (exc), where the   *)
(* table came from, and which advisory (st.warning / st.error) was shown.  *)

NoTable == [cols |-> <<>>, rows |-> <<>>]

Real(t) == [exc |-> "none", origin |-> "file", advisory |-> "none", table |-> t]

(* The generated table is returned without st.warning / st.error. *)
Fallback_silent(level, t) ==
  [exc |-> "none", origin |-> "dummy", advisory |-> "none", table |-> t]

Fallback(level, t) == [exc |-> "none", origin |-> "dummy", advisory |-> level, table |-> t]

Propagate(e) == [exc |-> e, origin |-> "none", advisory |-> "none", table |-> NoTable]

(* The category filter left out: every parsed row is kept. *)
FilterFoods_unfiltered(table) ==
  IF ~HasCol(table, "item_id") THEN Raised("KeyError")
  ELSE Parsed(table)

(* df[df['item_id'].str.startswith('FOODS')] *)
FilterFoods(table) ==
  IF ~HasCol(table, "item_id") THEN Raised("KeyError")
  ELSE IF \E i \in DOMAIN table.rows : IsNaN(table.rows[i].item_id)
       THEN Raised("ValueError")
       ELSE Parsed([cols |-> table.cols,
                    rows |-> SelectSeq(table.rows,
                                       LAMBDA r : startswith(r.item_id, FOODS))])

load_calendar(c, seed) ==
  LET r == read_csv(c)
      t == IF r.exc # "none" THEN r
           ELSE IF ~HasCol(r.table, "date") THEN Raised("KeyError")
           ELSE to_datetime(r.table, "date")
  IN  IF t.exc = "none" THEN Real(t.table)
      ELSE IF t.exc = "FileNotFoundError"
           THEN Fallback("warning", DummyCalendar[seed])
      ELSE IF t.exc \in ExceptionClasses
           THEN Fallback("error", DummyCalendar[seed])
      ELSE Propagate(t.exc)

load_sales_data(c, seed) ==
  LET r == read_csv(c)
      t == IF r.exc # "none" THEN r ELSE FilterFoods(r.table)
  IN  IF t.exc = "none" THEN Real(t.table)
      ELSE IF t.exc = "FileNotFoundError"
           THEN Fallback("warning", DummySales[seed])
      ELSE IF t.exc \in ExceptionClasses
           THEN Fallback("error", DummySales[seed])
      ELSE Propagate(t.exc)

load_prices_data(c, seed) ==
  LET r == read_csv(c)
      t == IF r.exc # "none" THEN r ELSE FilterFoods(r.table)
  IN  IF t.exc = "none" THEN Real(t.table)
      ELSE IF t.exc = "FileNotFoundError"
           THEN Fallback("warning", DummyPrices[seed])
      ELSE IF t.exc \in ExceptionClasses
           THEN Fallback("error", DummyPrices[seed])
      ELSE Propagate(t.exc)

(* load_test_results with only the `except FileNotFoundError` clause. *)
load_test_results_no_generic_handler(c) ==
  LET t == read_csv(c)
  IN  IF t.exc = "none" THEN Real(t.table)
      ELSE IF t.exc = "FileNotFoundError"
           THEN Fallback("warning", DummyTestResults)
      ELSE Propagate(t.exc)

load_test_results(c) ==
  LET t == read_csv(c)
  IN  IF t.exc = "none" THEN Real(t.table)
      ELSE IF t.exc = "FileNotFoundError"
           THEN Fallback("warning", DummyTestResults)
      ELSE IF t.exc \in ExceptionClasses
           THEN Fallback("error", DummyTestResults)
      ELSE Propagate(t.exc)

required_cols == <<"model_name", "mae">>

load_model_performance(c, seed) ==
  IF exists(c)
  THEN LET t == read_csv(c)
           missing_cols == SelectSeq(required_cols, LAMBDA col : ~HasCol(t.table, col))
       IN  IF t.exc = "none"
           THEN IF Len(missing_cols) > 0
                THEN Fallback("warning", DummyModelPerformance[seed])
                ELSE Real(t.table)
           ELSE IF t.exc \in ExceptionClasses
                THEN Fallback("error", DummyModelPerformance[seed])
                ELSE Propagate(t.exc)
  ELSE Fallback("warning", DummyModelPerformance[seed])

load_best_models(c) ==
  LET t == read_csv(c)
  IN  IF t.exc = "none" THEN Real(t.table)
      ELSE IF t.exc = "FileNotFoundError"
           THEN Fallback("warning", DummyBestModels)
      ELSE IF t.exc \in ExceptionClasses
           THEN Fallback("error", DummyBestModels)
      ELSE Propagate(t.exc)

UpperChars ==
  <<"A", "B", "C", "D", "E", "F", "G", "H", "I", "J", "K", "L", "M",
    "N", "O", "P", "Q", "R", "S", "T", "U", "V", "W", "X", "Y", "Z">>

LowerChars ==
  <<"a", "b", "c", "d", "e", "f", "g", "h", "i", "j", "k", "l", "m",
    "n", "o", "p", "q", "r", "s", "t", "u", "v", "w", "x", "y", "z">>

lower(s) ==
  [i \in DOMAIN s |->
     IF \E j \in DOMAIN UpperChars : UpperChars[j] = s[i]
     THEN LowerChars[CHOOSE j \in DOMAIN UpperChars : UpperChars[j] = s[i]]
     ELSE s[i]]

Chars_seasonal == <<"s", "e", "a", "s", "o", "n", "a", "l">>

Chars_zero_inflation ==
  <<"z", "e", "r", "o", "_", "i", "n", "f", "l", "a", "t", "i", "o", "n">>

Chars_volume == <<"v", "o", "l", "u", "m", "e">>

Chars_snap == <<"s", "n", "a", "p">>

(* The seasonal examples found by the beginning of the key. *)
file_mapping_page_keys(key) ==
  CASE startswith(key, Chars_seasonal) -> SEASONAL_EXAMPLES_FILE
    [] key = Chars_zero_inflation -> ZERO_INFLATION_EXAMPLES_FILE
    [] key = Chars_volume -> VOLUME_EXAMPLES_FILE
    [] key = Chars_snap -> SNAP_EXAMPLES_FILE
    [] OTHER -> "None"

(* file_mapping.get(key): the path, or "None" *)
file_mapping(key) ==
  CASE key = Chars_seasonal -> SEASONAL_EXAMPLES_FILE
    [] key = Chars_zero_inflation -> ZERO_INFLATION_EXAMPLES_FILE
    [] key = Chars_volume -> VOLUME_EXAMPLES_FILE
    [] key = Chars_snap -> SNAP_EXAMPLES_FILE
    [] OTHER -> "None"

load_pattern_examples(pattern_type, disk, seed) ==
  LET file_path == file_mapping(lower(pattern_type))
  IN  IF file_path # "None" /\ exists(disk[file_path])
      THEN LET t == read_csv(disk[file_path])
           IN  IF t.exc = "none" THEN Real(t.table)
               ELSE IF t.exc \in ExceptionClasses
                    THEN Fallback("error", create_dummy_pattern_examples(pattern_type, seed))
                    ELSE Propagate(t.exc)
      ELSE Fallback("warning", create_dummy_pattern_examples(pattern_type, seed))

-----------------------------------------------------------------------------
(* Time-series assembly: DataLoader.get_product_time_series, given the     *)
(* tables load_sales_data() and load_calendar() returned.  A calendar      *)
(* attribute of a point is <<v>>, or <<>> where the merge found no         *)
(* calendar row (NaN / NaT).                                               *)

(* col.startswith('d_'), over the column names of the model *)
IsDayCol(c) == c \in DOMAIN DayIndex

(* The rows left in merge order. *)
sort_values_none(rows) == rows

(* sort_values('date'): ascending, missing dates last; rows with equal     *)
(* dates are kept in their order.                                          *)
sort_values(rows) ==
  LET dated == SelectSeq(rows, LAMBDA r : r.date # <<>>)
      missing == SelectSeq(rows, LAMBDA r : r.date = <<>>)
      n == Len(dated)
      before(j, i) ==
        \/ dated[j].date[1] < dated[i].date[1]
        \/ dated[j].date = dated[i].date /\ j < i
      pos == [i \in 1..n |-> 1 + Cardinality({ j \in 1..n : before(j, i) })]
      sorted ==
        IF \A i \in 1..(n - 1) : dated[i].date[1] <= dated[i + 1].date[1]
        THEN dated
        ELSE [k \in 1..n |-> dated[CHOOSE i \in 1..n : pos[i] = k]]
  IN  sorted \o missing

(* The try body: select the rows of the pair, melt the day columns, merge  *)
(* the calendar attributes on 'd' (how='left'), sort by date.              *)
assemble(sales_df, calendar_df, product_id, store_id) ==
  LET merge_cols == <<"d", "date", "wday", "month", "year", "snap_CA", "snap_TX", "snap_WI">>
      product_data ==
        SelectSeq(sales_df.rows,
                  LAMBDA r : r.item_id = product_id /\ r.store_id = store_id)
      value_cols == SelectSeq(sales_df.cols, IsDayCol)
      R == Len(product_data)
      (* pd.melt: one entry per value column and selected row, column-major *)
      melted ==
        [k \in 1..(Len(value_cols) * R) |->
           LET c == value_cols[((k - 1) \div R) + 1]
               r == product_data[((k - 1) % R) + 1]
           IN  [item_id |-> r.item_id, dept_id |-> r.dept_id, cat_id |-> r.cat_id,
                store_id |-> r.store_id, state_id |-> r.state_id,
                d |-> c, sales |-> r[c]]]
      (* the positions of the calendar rows of each key, in row order *)
      RECURSIVE index(_, _)
      index(lo, hi) ==
        IF lo > hi THEN [key \in {} |-> <<>>]
        ELSE IF lo = hi THEN (calendar_df.rows[lo].d :> <<lo>>)
        ELSE LET mid == (lo + hi) \div 2
                 a == index(lo, mid)
                 b == index(mid + 1, hi)
             IN  [key \in (DOMAIN a) \cup (DOMAIN b) |->
                    (IF key \in DOMAIN a THEN a[key] ELSE <<>>)
                      \o (IF key \in DOMAIN b THEN b[key] ELSE <<>>)]
      right == index(1, Len(calendar_df.rows))
      point(m, date, wday, month, year, ca, tx, wi) ==
        [item_id |-> m.item_id, dept_id |-> m.dept_id, cat_id |-> m.cat_id,
         store_id |-> m.store_id, state_id |-> m.state_id, d |-> m.d, sales |-> m.sales,
         date |-> date, wday |-> wday, month |-> month, year |-> year,
         snap_CA |-> ca, snap_TX |-> tx, snap_WI |-> wi]
      joined(m) ==
        IF m.d \in DOMAIN right
        THEN [j \in 1..Len(right[m.d]) |->
                LET c == calendar_df.rows[right[m.d][j]]
                IN  point(m, <<c.date>>, <<c.wday>>, <<c.month>>, <<c.year>>,
                          <<c.snap_CA>>, <<c.snap_TX>>, <<c.snap_WI>>)]
        ELSE <<point(m, <<>>, <<>>, <<>>, <<>>, <<>>, <<>>, <<>>)>>
      RECURSIVE flat(_, _)
      flat(lo, hi) ==
        IF lo > hi THEN <<>>
        ELSE IF lo = hi THEN joined(melted[lo])
        ELSE flat(lo, (lo + hi) \div 2) \o flat(((lo + hi) \div 2) + 1, hi)
  IN  IF ~HasCol(sales_df, "item_id") \/ ~HasCol(sales_df, "store_id")
      THEN Raised("KeyError")
      ELSE IF R = 0 THEN Parsed(NoTable)
      ELSE IF \E c \in Range(SalesIdCols) : ~HasCol(sales_df, c)
      THEN Raised("KeyError")
      ELSE IF \E c \in Range(merge_cols) : ~HasCol(calendar_df, c)
      THEN Raised("KeyError")
      ELSE Parsed([cols |-> SalesIdCols \o <<"d", "sales">> \o Tail(merge_cols),
                   rows |-> sort_values(flat(1, Len(melted)))])

(* get_product_time_series without its try / except. *)
get_product_time_series_no_handler(sales_df, calendar_df, product_id, store_id) ==
  LET t == assemble(sales_df, calendar_df, product_id, store_id)
  IN  [exc |-> t.exc, advisory |-> "none", table |-> t.table]

(* The merge taken as how='inner': entries without a calendar row are dropped. *)
get_product_time_series_inner(sales_df, calendar_df, product_id, store_id) ==
  LET t == assemble(sales_df, calendar_df, product_id, store_id)
  IN  IF t.exc = "none"
      THEN [exc |-> "none", advisory |-> "none",
            table |-> [cols |-> t.table.cols,
                       rows |-> SelectSeq(t.table.rows, LAMBDA r : r.date # <<>>)]]
      ELSE [exc |-> "none", advisory |-> "error", table |-> NoTable]

get_product_time_series(sales_df, calendar_df, product_id, store_id) ==
  LET t == assemble(sales_df, calendar_df, product_id, store_id)
  IN  IF t.exc = "none" THEN [exc |-> "none", advisory |-> "none", table |-> t.table]
      ELSE IF t.exc \in ExceptionClasses
           THEN [exc |-> "none", advisory |-> "error", table |-> NoTable]
      ELSE [exc |-> t.exc, advisory |-> "none", table |-> NoTable]

-----------------------------------------------------------------------------
(* Summary aggregation: DataLoader.get_summary_statistics, given the       *)
(* tables load_sales_data() and load_test_results() returned.  A rate is   *)
(* the fraction num / den, not a number (NaN) when den = 0.                *)

Frac(n, d) == [num |-> n, den |-> d]

KEY_METRICS ==
  [total_products |-> 14370, test_success_rate |-> Frac(70, 100),
   zero_inflation_rate |-> Frac(62, 100), category |-> "FOODS",
   snap_effect_days |-> Frac(33, 100)]

(* The success rate always taken from the configuration. *)
get_summary_statistics_config_rate(sales_df, test_results) ==
  [total_products |-> Len(sales_df.rows),
   zero_inflation_rate |-> KEY_METRICS.zero_inflation_rate,
   test_success_rate |-> KEY_METRICS.test_success_rate,
   category |-> "FOODS"]

(* The product count always taken from the configuration. *)
get_summary_statistics_config_total(sales_df, test_results) ==
  [total_products |-> KEY_METRICS.total_products,
   zero_inflation_rate |-> KEY_METRICS.zero_inflation_rate,
   test_success_rate |-> KEY_METRICS.test_success_rate,
   category |-> "FOODS"]

(* The dictionary the try body returns; nothing in it raises on tables the *)
(* loaders return.                                                         *)
get_summary_statistics(sales_df, test_results) ==
  LET value_cols == SelectSeq(sales_df.cols, IsDayCol)
      days == Range(value_cols)
      zeros(r) == Cardinality({ c \in days : r[c] = 0 })
      RECURSIVE total(_)
      total(i) == IF i = 0 THEN 0 ELSE zeros(sales_df.rows[i]) + total(i - 1)
      empty == Len(test_results.rows) = 0 \/ Len(test_results.cols) = 0
      passes ==
        Cardinality({ i \in DOMAIN test_results.rows :
                        test_results.rows[i].status = "PASS" })
  IN  [total_products |-> Len(sales_df.rows),
       (* (sales_df[value_cols] == 0).mean().mean() *)
       zero_inflation_rate |->
         Frac(total(Len(sales_df.rows)), Len(sales_df.rows) * Len(value_cols)),
       test_success_rate |->
         IF ~empty /\ HasCol(test_results, "status")
         THEN Frac(passes, Len(test_results.rows))
         ELSE KEY_METRICS.test_success_rate,
       category |-> "FOODS"]

-----------------------------------------------------------------------------
(* Dataset keys: st.cache_data keeps one entry per decorated method and    *)
(* argument values (the _self parameter is not part of the key).           *)

Key(fn, arg) == [fn |-> fn, arg |-> arg]

Chars_SNAP == <<"S", "N", "A", "P">>

Chars_seasonality ==
  <<"s", "e", "a", "s", "o", "n", "a", "l", "i", "t", "y">>

PatternArgs == { Chars_SNAP, Chars_seasonality }

K_calendar == Key("load_calendar", <<>>)
K_sales_train == Key("load_sales_data", <<"False">>)
K_sales_eval == Key("load_sales_data", <<"True">>)
K_prices == Key("load_prices_data", <<>>)
K_test_results == Key("load_test_results", <<>>)
K_model_performance == Key("load_model_performance", <<>>)
K_best_models == Key("load_best_models", <<>>)

Keys ==
  { K_calendar, K_sales_train, K_sales_eval, K_prices, K_test_results,
    K_model_performance, K_best_models }
  \cup { Key("load_pattern_examples", a) : a \in PatternArgs }

NoKey == Key("none", <<>>)

(* The method body behind a key, run against the files on disk. *)
Body(k, disk, seed) ==
  CASE k.fn = "load_calendar" -> load_calendar(disk[CALENDAR_FILE], seed)
    [] k.fn = "load_sales_data" ->
         load_sales_data(IF k.arg = <<"True">> THEN disk[SALES_EVAL_FILE]
                         ELSE disk[SALES_TRAIN_FILE], seed)
    [] k.fn = "load_prices_data" -> load_prices_data(disk[SELL_PRICES_FILE], seed)
    [] k.fn = "load_test_results" -> load_test_results(disk[TEST_SUMMARY_FILE])
    [] k.fn = "load_model_performance" ->
         load_model_performance(disk[MODEL_PERFORMANCE_FILE], seed)
    [] k.fn = "load_best_models" -> load_best_models(disk[BEST_MODELS_FILE])
    [] k.fn = "load_pattern_examples" -> load_pattern_examples(k.arg, disk, seed)

(* The path the body of key k reads, "None" when it reads no file. *)
PathOf(k) ==
  CASE k.fn = "load_calendar" -> CALENDAR_FILE
    [] k.fn = "load_sales_data" ->
         IF k.arg = <<"True">> THEN SALES_EVAL_FILE ELSE SALES_TRAIN_FILE
    [] k.fn = "load_prices_data" -> SELL_PRICES_FILE
    [] k.fn = "load_test_results" -> TEST_SUMMARY_FILE
    [] k.fn = "load_model_performance" -> MODEL_PERFORMANCE_FILE
    [] k.fn = "load_best_models" -> BEST_MODELS_FILE
    [] k.fn = "load_pattern_examples" -> file_mapping(lower(k.arg))

(* Methods whose fallback draws from the random source. *)
UsesRandom(k) == k.fn \notin { "load_test_results", "load_best_models" }

SeedsOf(k) == IF UsesRandom(k) THEN Seeds ELSE {0}

-----------------------------------------------------------------------------
(* Payload handles                                                         *)

NoHandle == [origin |-> "none", content |-> "none", seed |-> 0]

FileHandle(c) == [origin |-> "file", content |-> c, seed |-> 0]

DummyHandle(seed) == [origin |-> "dummy", content |-> "none", seed |-> seed]

(* The handle of what Body(k, disk, seed) returned. *)
HandleOf(k, disk, seed) ==
  LET o == Body(k, disk, seed)
  IN  CASE o.origin = "file" -> FileHandle(disk[PathOf(k)])
        [] o.origin = "dummy" -> DummyHandle(seed)
        [] OTHER -> NoHandle

(* The table a handle of key k denotes. *)
TableOf(k, h) ==
  CASE h.origin = "file" ->
         Body(k, [p \in Paths |-> h.content], 0).table
    [] h.origin = "dummy" ->
         Body(k, [p \in Paths |-> "missing"], h.seed).table
    [] OTHER -> NoTable

-----------------------------------------------------------------------------
(* State                                                                   *)
(*   files    the content of each source file on disk                      *)
(*   cache    the st.cache_data entry of each key: payload and insertion   *)
(*            time, present = FALSE when there is none                     *)
(*   now      the clock, in seconds                                        *)
(*   last     the operation that ran last and what it returned             *)
(*   cleared  the keys not loaded since the last clear_cache               *)
(*   ticks, writes, loads   how often the clock moved, a file changed, a   *)
(*            load was called                                              *)
(*   sessions the DataLoader of each browser session: its _cache           *)
(*            dictionary and where its call of a decorated method stands   *)

NoEntry == [present |-> FALSE, payload |-> NoHandle, ts |-> 0]

(* The browser sessions; app.py gives each its own DataLoader, kept in     *)
(* st.session_state.                                                       *)
Sessions == 1..MaxSessions

(* DataLoader.__init__: the instance dictionary, and no call under way.    *)
(* pc is where the session's call of a decorated method stands, missed     *)
(* whether its first lookup found no valid entry, at when it returned.     *)
NewSession ==
  [_cache |-> {}, pc |-> "idle", key |-> Key("none", <<>>), missed |-> FALSE,
   executed |-> FALSE, result |-> NoHandle, at |-> 0]

Entry(h, t) == [present |-> TRUE, payload |-> h, ts |-> t]

Idle(op) ==
  [op |-> op, key |-> NoKey, executed |-> FALSE, exc |-> "none",
   result |-> NoHandle, advisory |-> "none"]

Init ==
  /\ files = [p \in Paths |-> "missing"]
  /\ cache = [k \in Keys |-> NoEntry]
  /\ now = 0
  /\ last = Idle("init")
  /\ cleared = {}
  /\ ticks = 0
  /\ writes = 0
  /\ loads = 0
  /\ sessions = [s \in Sessions |-> NewSession]

(* A time-to-live of zero: no entry ever counts. *)
Valid_zero_ttl(e, t) == e.present /\ t - e.ts < 0

(* The entry still counts at the instant it reaches the time-to-live. *)
Valid_inclusive(e, t) == e.present /\ t - e.ts <= CACHE_TTL

(* TTLCache lookup: an entry counts while now < ts + ttl. *)
Valid(e, t) == e.present /\ t - e.ts < CACHE_TTL

(* Only tables read from a file are stored; a fallback is regenerated on   *)
(* every call.                                                             *)
Load_fallback_not_cached(k, seed) ==
  /\ loads < MaxLoads
  /\ IF cache[k].present /\ now - cache[k].ts < CACHE_TTL
     THEN /\ last' = [op |-> "load", key |-> k, executed |-> FALSE, exc |-> "none",
                      result |-> cache[k].payload, advisory |-> "none"]
          /\ cache' = cache
     ELSE LET o == Body(k, files, seed)
              h == HandleOf(k, files, seed)
          IN  /\ last' = [op |-> "load", key |-> k, executed |-> TRUE, exc |-> o.exc,
                          result |-> h, advisory |-> o.advisory]
              /\ cache' = IF o.exc = "none" /\ o.origin = "file"
                          THEN [cache EXCEPT ![k] = Entry(h, now)]
                          ELSE cache
  /\ cleared' = cleared \ {k}
  /\ loads' = loads + 1
  /\ UNCHANGED <<files, now, ticks, writes, sessions>>

(* A call of the decorated method of key k. *)
Load(k, seed) ==
  /\ loads < MaxLoads
  /\ IF Valid(cache[k], now)
     THEN /\ last' = [op |-> "load", key |-> k, executed |-> FALSE, exc |-> "none",
                      result |-> cache[k].payload, advisory |-> "none"]
          /\ cache' = cache
     ELSE LET o == Body(k, files, seed)
              h == HandleOf(k, files, seed)
          IN  /\ last' = [op |-> "load", key |-> k, executed |-> TRUE, exc |-> o.exc,
                          result |-> h, advisory |-> o.advisory]
              /\ cache' = IF o.exc = "none"
                          THEN [cache EXCEPT ![k] = Entry(h, now)]
                          ELSE cache
  /\ cleared' = cleared \ {k}
  /\ loads' = loads + 1
  /\ UNCHANGED <<files, now, ticks, writes, sessions>>

(* Only the instance dictionary is cleared; st.cache_data is left alone. *)
clear_cache_instance_only ==
  /\ cache' = cache
  /\ cleared' = Keys
  /\ last' = Idle("clear_cache")
  /\ \E s \in Sessions : sessions' = [sessions EXCEPT ![s]._cache = {}]
  /\ UNCHANGED <<files, now, ticks, writes, loads>>

(* Only the entries that have outlived their time-to-live are dropped. *)
clear_cache_expired_only ==
  /\ cache' = [k \in Keys |->
                IF cache[k].present /\ now - cache[k].ts < CACHE_TTL
                THEN cache[k] ELSE NoEntry]
  /\ cleared' = Keys
  /\ last' = Idle("clear_cache")
  /\ \E s \in Sessions : sessions' = [sessions EXCEPT ![s]._cache = {}]
  /\ UNCHANGED <<files, now, ticks, writes, loads>>

(* DataLoader.clear_cache, on the instance of some session: its dictionary *)
(* is cleared and st.cache_data.clear() drops every entry.                 *)
clear_cache ==
  /\ cache' = [k \in Keys |-> NoEntry]
  /\ cleared' = Keys
  /\ last' = Idle("clear_cache")
  /\ \E s \in Sessions : sessions' = [sessions EXCEPT ![s]._cache = {}]
  /\ UNCHANGED <<files, now, ticks, writes, loads>>

(* The datasets the sessions below ask for. *)
SharedKeys == { K_calendar, K_sales_train }

(* Session s calls the decorated method of key k on its instance.  The     *)
(* instance (_self) is no part of the key: st.cache_data looks up the one  *)
(* entry of k and returns its payload when it is valid.                    *)
BeginLoad(s, k) ==
  /\ sessions[s].pc = "idle"
  /\ IF Valid(cache[k], now)
     THEN /\ sessions' = [sessions EXCEPT ![s] =
                            [@ EXCEPT !.pc = "done", !.key = k, !.at = now,
                                      !.result = cache[k].payload]]
          /\ last' = [op |-> "load", key |-> k, executed |-> FALSE, exc |-> "none",
                      result |-> cache[k].payload, advisory |-> "none"]
          /\ cleared' = cleared \ {k}
     ELSE /\ sessions' = [sessions EXCEPT ![s] =
                            [@ EXCEPT !.pc = "missed", !.key = k, !.missed = TRUE]]
          /\ UNCHANGED <<last, cleared>>
  /\ UNCHANGED <<files, cache, now, ticks, writes, loads>>

(* The lock of the key left out: a missed call goes on to compute. *)
AcquireLock_none(s) ==
  /\ sessions[s].pc = "missed"
  /\ sessions' = [sessions EXCEPT ![s].pc = "computing"]
  /\ UNCHANGED <<files, cache, now, last, cleared, ticks, writes, loads>>

(* After a miss st.cache_data takes the compute lock of the key, which one *)
(* session holds at a time, and looks the entry up again: another session  *)
(* may have written it meanwhile.                                          *)
AcquireLock(s) ==
  /\ sessions[s].pc = "missed"
  /\ \A o \in Sessions :
       ~(sessions[o].pc = "computing" /\ sessions[o].key = sessions[s].key)
  /\ LET k == sessions[s].key
     IN  IF Valid(cache[k], now)
         THEN /\ sessions' = [sessions EXCEPT ![s] =
                                [@ EXCEPT !.pc = "done", !.at = now,
                                          !.result = cache[k].payload]]
              /\ last' = [op |-> "load", key |-> k, executed |-> FALSE,
                          exc |-> "none", result |-> cache[k].payload,
                          advisory |-> "none"]
              /\ cleared' = cleared \ {k}
         ELSE /\ sessions' = [sessions EXCEPT ![s].pc = "computing"]
              /\ UNCHANGED <<last, cleared>>
  /\ UNCHANGED <<files, cache, now, ticks, writes, loads>>

(* The result kept in the dictionary of the instance, not in st.cache_data. *)
FinishLoad_instance_cache(s, seed) ==
  /\ sessions[s].pc = "computing"
  /\ LET k == sessions[s].key
         o == Body(k, files, seed)
         h == HandleOf(k, files, seed)
     IN  /\ sessions' = [sessions EXCEPT ![s] =
                           [@ EXCEPT !.pc = "done", !.at = now, !.executed = TRUE,
                                     !.result = h, !._cache = {k}]]
         /\ last' = [op |-> "load", key |-> k, executed |-> TRUE, exc |-> o.exc,
                     result |-> h, advisory |-> o.advisory]
         /\ cleared' = cleared \ {k}
  /\ UNCHANGED <<files, cache, now, ticks, writes, loads>>

(* The method body runs, its result is written to the entry and returned,  *)
(* and the lock is released.                                               *)
FinishLoad(s, seed) ==
  /\ sessions[s].pc = "computing"
  /\ LET k == sessions[s].key
         o == Body(k, files, seed)
         h == HandleOf(k, files, seed)
     IN  /\ sessions' = [sessions EXCEPT ![s] =
                           [@ EXCEPT !.pc = "done", !.at = now, !.executed = TRUE,
                                     !.result = h]]
         /\ last' = [op |-> "load", key |-> k, executed |-> TRUE, exc |-> o.exc,
                     result |-> h, advisory |-> o.advisory]
         /\ cache' = IF o.exc = "none"
                     THEN [cache EXCEPT ![k] = Entry(h, now)]
                     ELSE cache
         /\ cleared' = cleared \ {k}
  /\ UNCHANGED <<files, now, ticks, writes, loads>>

(* One step of the call of session s. *)
SessionLoad(s) ==
  \/ \E k \in SharedKeys : BeginLoad(s, k)
  \/ AcquireLock(s)
  \/ \E seed \in Seeds : FinishLoad(s, seed)

TickSteps == { CACHE_TTL - 1, CACHE_TTL }

(* Time passes. *)
Tick(d) ==
  /\ ticks < MaxTicks
  /\ now' = now + d
  /\ ticks' = ticks + 1
  /\ last' = Idle("tick")
  /\ UNCHANGED <<files, cache, cleared, writes, loads, sessions>>

(* The environment replaces, creates or removes a source file. *)
WriteFile(p, c) ==
  /\ writes < MaxWrites
  /\ files[p] # c
  /\ files' = [files EXCEPT ![p] = c]
  /\ writes' = writes + 1
  /\ last' = Idle("write")
  /\ UNCHANGED <<cache, now, cleared, ticks, loads, sessions>>

(* A well-formed file of the dataset kept at path p. *)
ValidContent(p) ==
  CASE p = CALENDAR_FILE -> "calendar_valid"
    [] p \in { SALES_TRAIN_FILE, SALES_EVAL_FILE } -> "sales_mixed"
    [] p = SELL_PRICES_FILE -> "prices_mixed"
    [] p = TEST_SUMMARY_FILE -> "tests_valid"
    [] p = MODEL_PERFORMANCE_FILE -> "perf_valid"
    [] p = BEST_MODELS_FILE -> "best_valid"
    [] OTHER -> "pattern_valid"

(* Cache life cycle: the files come and go while loads, refreshes and the  *)
(* clock interleave.                                                       *)
Next ==
  \/ \E k \in Keys : \E seed \in SeedsOf(k) : Load(k, seed)
  \/ clear_cache
  \/ \E d \in TickSteps : Tick(d)
  \/ \E k \in Keys : \E c \in { "missing", ValidContent(PathOf(k)) } :
        PathOf(k) \in Paths /\ WriteFile(PathOf(k), c)

Spec == Init /\ [][Next]_vars

(* Every loader against every file condition: the disk starts with any one *)
(* file in any condition, and each loader is then called on it.            *)
InitFiles ==
  /\ \E p \in Paths : \E c \in Contents : files = [q \in Paths |-> IF q = p THEN c ELSE "missing"]
  /\ cache = [k \in Keys |-> NoEntry]
  /\ now = 0
  /\ last = Idle("init")
  /\ cleared = {}
  /\ ticks = 0
  /\ writes = 0
  /\ loads = 0
  /\ sessions = [s \in Sessions |-> NewSession]

FirstLoad(k, seed) == loads = 0 /\ Load(k, seed)

NextFiles == \E k \in Keys : \E seed \in SeedsOf(k) : FirstLoad(k, seed)

SpecFiles == InitFiles /\ [][NextFiles]_vars

(* The sessions of one server process, each making one call, while time   *)
(* passes.                                                                 *)
NextConcurrent ==
  \/ \E s \in Sessions : SessionLoad(s)
  \/ \E d \in TickSteps : Tick(d)

SpecConcurrent == Init /\ [][NextConcurrent]_vars

(* The sessions of one server process, any of which may press Refresh Data. *)
NextShared ==
  \/ \E s \in Sessions : SessionLoad(s)
  \/ clear_cache

SpecShared == Init /\ [][NextShared]_vars

(* The row generator of _create_dummy_model_performance against every      *)
(* outcome of its four draws.                                              *)
DummyPerformanceRow(model, pattern, e_mae, e_rmse, u_mape, u_r2) ==
  /\ last.op = "init"
  /\ last' = [op |-> "_create_dummy_model_performance",
              key |-> Key("_create_dummy_model_performance", <<model, pattern>>),
              executed |-> TRUE, exc |-> "none",
              result |-> dummy_performance_row(model, pattern, e_mae, e_rmse,
                                               u_mape, u_r2),
              advisory |-> "none"]
  /\ UNCHANGED <<files, cache, now, cleared, ticks, writes, loads, sessions>>

NextNoise ==
  \E model \in Range(AVAILABLE_MODELS) : \E pattern \in Range(PATTERN_TYPES) :
    \E e_mae \in Range(NormalOutcomes) : \E e \in Range(NormalOutcomes) :
      \E u_mape \in Range(MapeOutcomes) : \E u_r2 \in Range(R2Outcomes) :
        DummyPerformanceRow(model, pattern, e_mae, (e * 3) \div 2, u_mape, u_r2)

SpecNoise == Init /\ [][NextNoise]_vars

(* The inner call run anew although its entry is valid, the entry replaced. *)
Call_recompute(c, t, k, disk, seed) ==
  [cache |-> [c EXCEPT ![k] = Entry(HandleOf(k, disk, seed), t)],
   result |-> HandleOf(k, disk, seed),
   exc |-> Body(k, disk, seed).exc,
   executed |-> TRUE]

(* A call of the decorated method of key k made from inside another        *)
(* method: what it returns and the cache it leaves, given cache c at time  *)
(* t.                                                                      *)
Call(c, t, k, disk, seed) ==
  IF Valid(c[k], t)
  THEN [cache |-> c, result |-> c[k].payload, exc |-> "none", executed |-> FALSE]
  ELSE [cache |-> IF Body(k, disk, seed).exc = "none"
                  THEN [c EXCEPT ![k] = Entry(HandleOf(k, disk, seed), t)]
                  ELSE c,
        result |-> HandleOf(k, disk, seed),
        exc |-> Body(k, disk, seed).exc,
        executed |-> TRUE]

(* The handle of a derived result: the payloads the two loads returned. *)
Derived(h1, h2) == [origin |-> "derived", content |-> <<h1, h2>>, seed |-> 0]

DummyItem == replace(DummyProduct(1), Chars_validation, <<>>)

ProductArgs == { ITEM_F1, ITEM_H1, DummyItem }

StoreArgs == { "CA_1", "TX_1" }

(* get_product_time_series(product_id, store_id): the two cached loads,    *)
(* then the assembly.                                                      *)
GetProductTimeSeries ==
  /\ loads = 0
  /\ \E product_id \in ProductArgs : \E store_id \in StoreArgs :
     \E seed_sales \in Seeds : \E seed_calendar \in Seeds :
     \E a \in { Call(cache, now, K_sales_train, files, seed_sales) } :
     \E b \in { Call(a.cache, now, K_calendar, files, seed_calendar) } :
     \E r \in { IF a.exc = "none" /\ b.exc = "none"
                THEN get_product_time_series(TableOf(K_sales_train, a.result),
                                             TableOf(K_calendar, b.result),
                                             product_id, store_id)
                ELSE [exc |-> "none", advisory |-> "error", table |-> NoTable] } :
       /\ cache' = b.cache
       /\ last' = [op |-> "get_product_time_series",
                   key |-> Key("get_product_time_series", <<product_id, store_id>>),
                   executed |-> TRUE, exc |-> r.exc,
                   result |-> Derived(a.result, b.result),
                   advisory |-> r.advisory]
  /\ cleared' = cleared \ { K_sales_train, K_calendar }
  /\ loads' = loads + 2
  /\ UNCHANGED <<files, now, ticks, writes, sessions>>

(* get_summary_statistics(): the two cached loads, then the aggregation. *)
GetSummaryStatistics ==
  /\ loads = 0
  /\ \E seed_sales \in Seeds :
     \E a \in { Call(cache, now, K_sales_train, files, seed_sales) } :
     \E b \in { Call(a.cache, now, K_test_results, files, 0) } :
       /\ cache' = b.cache
       /\ last' = [op |-> "get_summary_statistics",
                   key |-> Key("get_summary_statistics", <<>>),
                   executed |-> TRUE, exc |-> "none",
                   result |-> Derived(a.result, b.result),
                   advisory |-> IF a.exc = "none" /\ b.exc = "none"
                                THEN "none" ELSE "error"]
  /\ cleared' = cleared \ { K_sales_train, K_test_results }
  /\ loads' = loads + 2
  /\ UNCHANGED <<files, now, ticks, writes, sessions>>

(* The conditions the file at path p is taken through below. *)
ConditionsOf(p) ==
  CASE p = SALES_TRAIN_FILE ->
         { "missing", "sales_foods", "sales_mixed", "sales_hobbies",
           "sales_negative", "sales_extra", "sales_header", "sales_no_store" }
    [] p = CALENDAR_FILE ->
         { "missing", "malformed", "calendar_valid", "calendar_extra",
           "calendar_header", "calendar_no_wday", "calendar_late" }
    [] p = TEST_SUMMARY_FILE ->
         { "missing", "malformed", "tests_valid", "tests_no_status", "tests_header" }
    [] OTHER -> { "missing" }

(* The derived results against every condition of the files they rest on. *)
InitDerived ==
  /\ \E s \in ConditionsOf(SALES_TRAIN_FILE) : \E c \in ConditionsOf(CALENDAR_FILE) :
       \E t \in ConditionsOf(TEST_SUMMARY_FILE) :
         /\ c = "missing" \/ t = "missing"
         /\ files = [p \in Paths |->
                       CASE p = SALES_TRAIN_FILE -> s
                         [] p = CALENDAR_FILE -> c
                         [] p = TEST_SUMMARY_FILE -> t
                         [] OTHER -> "missing"]
  /\ cache = [k \in Keys |-> NoEntry]
  /\ now = 0
  /\ last = Idle("init")
  /\ cleared = {}
  /\ ticks = 0
  /\ writes = 0
  /\ loads = 0
  /\ sessions = [s \in Sessions |-> NewSession]

(* One call of each derived operation on a fresh session. *)
SpecSeries == InitDerived /\ [][GetProductTimeSeries]_vars

SpecSummary == InitDerived /\ [][GetSummaryStatistics]_vars

(* A session in which some of the datasets were loaded at time 0 and are   *)
(* cached, CACHE_TTL - 1 or CACHE_TTL seconds later; loads are counted     *)
(* from here on.                                                           *)
InitCached ==
  /\ \E s \in { "missing", "sales_foods" } : \E c \in { "missing", "calendar_valid" } :
       \E t \in { "missing", "tests_valid" } :
         files = [p \in Paths |->
                    CASE p = SALES_TRAIN_FILE -> s
                      [] p = CALENDAR_FILE -> c
                      [] p = TEST_SUMMARY_FILE -> t
                      [] OTHER -> "missing"]
  /\ \E loaded \in SUBSET { K_sales_train, K_calendar, K_test_results } :
       \E seed \in Seeds :
         cache = [k \in Keys |->
                    IF k \in loaded
                    THEN Entry(HandleOf(k, files, IF UsesRandom(k) THEN seed ELSE 0), 0)
                    ELSE NoEntry]
  /\ now \in TickSteps
  /\ last = Idle("tick")
  /\ cleared = {}
  /\ ticks = 1
  /\ writes = 0
  /\ loads = 0
  /\ sessions = [s \in Sessions |-> NewSession]

(* One call of each derived operation on such a session. *)
SpecCachedSeries == InitCached /\ [][GetProductTimeSeries]_vars

SpecCachedSummary == InitCached /\ [][GetSummaryStatistics]_vars

-----------------------------------------------------------------------------
(* Derived results, computed from the handle of the call that returned     *)
(* them.                                                                   *)

SalesOf(l) == TableOf(K_sales_train, l.result.content[1])

(* The points get_product_time_series returned. *)
SeriesOf(l) ==
  IF l.advisory = "error" THEN NoTable
  ELSE get_product_time_series(SalesOf(l), TableOf(K_calendar, l.result.content[2]),
                               l.key.arg[1], l.key.arg[2]).table

(* The dictionary get_summary_statistics returned. *)
SummaryOf(l) ==
  IF l.advisory = "error" THEN KEY_METRICS
  ELSE get_summary_statistics(SalesOf(l), TableOf(K_test_results, l.result.content[2]))

-----------------------------------------------------------------------------
(* Properties                                                              *)

LastTable == TableOf(last.key, last.result)

LastPath == PathOf(last.key)

(* The content of the file the last load was about, "none" if it has none. *)
LastContent == IF LastPath \in Paths THEN files[LastPath] ELSE "none"

IsLoadOf(k) == last'.op = "load" /\ last'.key = k

(* C1: no load raises. Whatever the condition of the source file, every    *)
(* loader returns a table, read from the file or generated, and no         *)
(* exception leaves the call.                                              *)
C1_LoadNeverRaises ==
  last.op = "load" =>
    /\ last.exc = "none"
    /\ last.result.origin \in { "file", "dummy" }

C1_Witness ==
  /\ last.op = "load"
  /\ last.executed
  /\ LastContent \in { "zero_bytes", "malformed", "unreadable", "sales_no_item" }
  /\ last.result.origin = "dummy"

(* C2: cache hit. A load of a key whose entry was stored less than the     *)
(* time-to-live ago (and not cleared since) returns the payload the        *)
(* storing call returned, without running the method body, hence without   *)
(* reading the file; the storing call returned exactly what it stored.     *)
C2_CacheHit ==
  [][ /\ \A k \in Keys :
           (IsLoadOf(k) /\ cache[k].present /\ now - cache[k].ts < CACHE_TTL)
             => (last'.result = cache[k].payload /\ ~last'.executed)
      /\ \A k \in Keys :
           (IsLoadOf(k) /\ last'.executed /\ last'.exc = "none")
             => cache'[k].payload = last'.result ]_vars

C2_Witness ==
  /\ last.op = "load"
  /\ ~last.executed
  /\ last.result.origin = "file"
  /\ now = CACHE_TTL - 1
  /\ cache[last.key].ts = 0

(* C3: cache expiry. With TTL = 3600 s, a load finds the entry of its key  *)
(* valid exactly while now - insertion time < TTL; otherwise it runs the   *)
(* whole method body again and replaces the entry, stamped with the        *)
(* current time. No entry changes or disappears except by a load of its    *)
(* key or by clear_cache: the passing of time removes nothing.             *)
C3_Expiry ==
  [][ /\ \A k \in Keys :
           (IsLoadOf(k) /\ cache[k].present) =>
             IF now - cache[k].ts < 3600
             THEN ~last'.executed /\ cache'[k] = cache[k]
             ELSE /\ last'.executed
                  /\ cache'[k].present
                  /\ cache'[k].ts = now
                  /\ cache'[k].payload = last'.result
      /\ \A k \in Keys :
           cache'[k] # cache[k] => (last'.op = "clear_cache" \/ IsLoadOf(k)) ]_vars

C3_Witness ==
  /\ last.op = "load"
  /\ last.executed
  /\ now = CACHE_TTL
  /\ loads = 2
  /\ cleared = {}
  /\ Cardinality({ k \in Keys : cache[k].present }) = 1
  /\ cache[last.key].ts = now

(* C4: refresh. The first load of a key after clear_cache runs the whole   *)
(* method body again, whatever the age of the entry that was cleared.      *)
C4_RefreshReloads ==
  [][ \A k \in Keys : (k \in cleared /\ IsLoadOf(k)) => last'.executed ]_vars

C4_Witness ==
  /\ last.op = "load"
  /\ last.executed
  /\ now = 0
  /\ loads = 2
  /\ cleared = Keys \ { last.key }
  /\ Cardinality({ k \in Keys : cache[k].present }) = 1

(* C5: clear_cache leaves the entry of every key empty, whatever the cache *)
(* held: the cache after clear_cache is always the same empty cache, so a  *)
(* second clear_cache, or one on an empty cache, changes nothing.          *)
C5_ClearEmptiesAll ==
  last.op = "clear_cache" => \A k \in Keys : cache[k] = NoEntry

C5_Witness ==
  /\ last.op = "clear_cache"
  /\ loads = 2
  /\ cleared = Keys

(* C6: a fallback is cached like a real result. An executed load that      *)
(* falls back stores the generated payload with the current time, and a    *)
(* later load within the time-to-live returns that payload without running *)
(* the body, even when the source file has become valid meanwhile.         *)
C6_FallbackCached ==
  [][ /\ \A k \in Keys :
           (IsLoadOf(k) /\ last'.executed /\ last'.result.origin = "dummy")
             => cache'[k] = Entry(last'.result, now)
      /\ \A k \in Keys :
           (/\ IsLoadOf(k)
            /\ cache[k].present
            /\ cache[k].payload.origin = "dummy"
            /\ now - cache[k].ts < CACHE_TTL)
             => (/\ last'.result = cache[k].payload
                 /\ last'.result.origin = "dummy"
                 /\ ~last'.executed) ]_vars

C6_Witness ==
  /\ last.op = "load"
  /\ ~last.executed
  /\ last.result.origin = "dummy"
  /\ LastContent = ValidContent(LastPath)
  /\ Body(last.key, files, 1).origin = "file"

(* The table pandas parsed from the file the last load read. *)
LastParsed == read_csv(LastContent).table

LastReadATable == last.op = "load" /\ last.executed /\ LastContent \in TableContents

ErrorMetrics == { "mae", "rmse", "mape" }

PerfBoundsViolated(t) ==
  \E i \in DOMAIN t.rows :
    \/ \E c \in ErrorMetrics \cap Range(t.cols) : t.rows[i][c] < 0
    \/ "r2_score" \in Range(t.cols) /\ t.rows[i].r2_score > 1000

SalesBoundsViolated(t) ==
  \E i \in DOMAIN t.rows :
    \E c \in Range(DayCols) \cap Range(t.cols) : t.rows[i][c] < 0

(* C7: schema bounds trigger the fallback. When the file parses but a      *)
(* bounded numeric column breaks its bound (a negative mae in a            *)
(* model-performance file, a negative count in a sales file), the load     *)
(* returns the generated table instead of the parsed one.                  *)
C7_BoundsTriggerFallback ==
  (/\ LastReadATable
   /\ \/ last.key.fn = "load_model_performance" /\ PerfBoundsViolated(LastParsed)
      \/ last.key.fn = "load_sales_data" /\ SalesBoundsViolated(LastParsed))
    => last.result.origin = "dummy"

RequiredColumns(fn) ==
  CASE fn = "load_calendar" ->
         { "d", "date", "wday", "month", "year", "snap_CA", "snap_TX", "snap_WI" }
    [] fn = "load_sales_data" ->
         { "item_id", "dept_id", "cat_id", "store_id", "state_id" }
    [] fn = "load_model_performance" ->
         { "model_name", "pattern_type", "mae", "rmse", "mape", "r2_score" }

CellsWellFormed(fn, t) ==
  CASE fn = "load_calendar" ->
         \A i \in DOMAIN t.rows : Len(t.rows[i].date) = 3
    [] fn = "load_sales_data" ->
         \A i \in DOMAIN t.rows : t.rows[i].item_id # <<"NaN">>
    [] OTHER -> TRUE

(* C8: missing required columns trigger the fallback for every dataset     *)
(* kind. When the file parses but lacks a column of its entity (calendar,  *)
(* sales, model performance), the load returns the generated table; a file *)
(* with every required column and further ones is returned as read.        *)
C8_MissingColumnsFallback ==
  (LastReadATable
     /\ last.key.fn \in { "load_calendar", "load_sales_data", "load_model_performance" })
    => LET have == Range(LastParsed.cols)
           need == RequiredColumns(last.key.fn)
       IN  /\ ~(need \subseteq have) => last.result.origin = "dummy"
           /\ (need \subseteq have /\ have # need /\ CellsWellFormed(last.key.fn, LastParsed))
                => last.result.origin = "file"

(* C9: every load returns a table with at least one row. A file without    *)
(* data rows, and a sales or prices file of which no row passes the        *)
(* category filter, yield the generated table as a missing file does.      *)
C9_AtLeastOneRow ==
  (last.op = "load" /\ last.exc = "none") => Len(LastTable.rows) >= 1

AllFoods(t) ==
  \A i \in DOMAIN t.rows :
    /\ Len(t.rows[i].item_id) >= 5
    /\ SubSeq(t.rows[i].item_id, 1, 5) = <<"F", "O", "O", "D", "S">>

(* C10: category filter. Every row of a table returned by load_sales_data  *)
(* (training or evaluation) or load_prices_data, and of every table cached *)
(* for them, has an item identifier that starts with FOODS, whether the    *)
(* table was read from the file or generated.                              *)
C10_CategoryFilter ==
  /\ (last.op = "load" /\ last.key.fn \in { "load_sales_data", "load_prices_data" })
       => AllFoods(LastTable)
  /\ \A k \in { K_sales_train, K_sales_eval, K_prices } :
       cache[k].present => AllFoods(TableOf(k, cache[k].payload))

C10_Witness ==
  /\ last.op = "load"
  /\ last.key \in { K_sales_train, K_sales_eval, K_prices }
  /\ last.result.origin = "file"
  /\ LastContent = "sales_mixed"
  /\ Len(LastParsed.rows) = 4
  /\ Len(LastTable.rows) = 1

(* C11: every fallback is observable. A load whose body returns the        *)
(* generated table has shown an advisory (st.warning or st.error) during   *)
(* that call; a load whose body returns the table read from the file has   *)
(* shown none.                                                             *)
C11_FallbackObservable ==
  (last.op = "load" /\ last.executed) =>
    /\ last.result.origin = "dummy" => last.advisory \in { "warning", "error" }
    /\ last.result.origin = "file" => last.advisory = "none"

C11_Witness ==
  /\ last.op = "load"
  /\ last.executed
  /\ LastContent = "malformed"
  /\ last.result.origin = "dummy"
  /\ last.advisory = "error"

(* C12: the generator is deterministic. When the body of a key falls back  *)
(* again after the entry that held an earlier fallback has expired (the    *)
(* source file absent both times), the table it generates equals the       *)
(* table generated before.                                                 *)
C12_GeneratorDeterministic ==
  [][ \A k \in Keys :
        (/\ IsLoadOf(k)
         /\ last'.executed
         /\ last'.result.origin = "dummy"
         /\ cache[k].present
         /\ cache[k].payload.origin = "dummy")
          => TableOf(k, last'.result) = TableOf(k, cache[k].payload) ]_vars

(* C13: generated model-performance rows satisfy the bounds of real data.  *)
(* Whatever the four draws yield, the row has mae >= 0, rmse >= 0,         *)
(* mape >= 0 and r2_score <= 1.                                            *)
C13_SyntheticWithinBounds ==
  last.op = "_create_dummy_model_performance" =>
    /\ last.result.mae >= 0
    /\ last.result.rmse >= 0
    /\ last.result.mape >= 0
    /\ last.result.r2_score <= 1000

(* C14: the generated model-performance table is the full cross product of *)
(* the 5 configured models and the 4 configured pattern types: 20 rows,    *)
(* exactly one per (model, pattern) pair, every mae strictly positive.     *)
C14_FullCrossProduct ==
  (last.op = "load" /\ last.key = K_model_performance /\ last.result.origin = "dummy")
    => /\ Cardinality(Range(AVAILABLE_MODELS)) = 5
       /\ Cardinality(Range(PATTERN_TYPES)) = 4
       /\ Len(LastTable.rows) = 20
       /\ \A m \in Range(AVAILABLE_MODELS) : \A p \in Range(PATTERN_TYPES) :
            Cardinality({ i \in DOMAIN LastTable.rows :
                            /\ LastTable.rows[i].model_name = m
                            /\ LastTable.rows[i].pattern_type = p }) = 1
       /\ \A i \in DOMAIN LastTable.rows : LastTable.rows[i].mae > 0

C14_Witness ==
  /\ last.op = "load"
  /\ last.key = K_model_performance
  /\ last.result.origin = "dummy"
  /\ LastContent = "perf_no_mae"
  /\ \E i \in DOMAIN LastTable.rows : LastTable.rows[i].mae = 500

(* C15: with no calendar file, load_calendar returns one row per day from  *)
(* 2011-01-29 to 2016-06-19 inclusive (1969 days): consecutive rows are    *)
(* consecutive days, so no date is missing or repeated; the keys are       *)
(* pairwise different and the i-th day carries the key d_i.                *)
C15_CalendarHorizon ==
  (last.op = "load" /\ last.key = K_calendar /\ LastContent = "missing")
    => LET rows == LastTable.rows
           n == Len(rows)
       IN  /\ n = 1969
           /\ CivilFromDays(rows[1].date) = [year |-> 2011, month |-> 1, day |-> 29]
           /\ CivilFromDays(rows[n].date) = [year |-> 2016, month |-> 6, day |-> 19]
           /\ \A i \in 1..(n - 1) : rows[i + 1].date = rows[i].date + 1
           /\ Cardinality({ rows[i].d : i \in 1..n }) = n
           /\ \A i \in 1..n : rows[i].d = "d_" \o ToString(i)

C15_Witness ==
  /\ last.op = "load"
  /\ last.key = K_calendar
  /\ last.executed
  /\ LastContent = "missing"
  /\ last.result.origin = "dummy"
  /\ Len(LastTable.rows) = 1969

(* The sales and calendar tables the last derived call worked on. *)
CalendarOf(l) == TableOf(K_calendar, l.result.content[2])

DayColumns(table) == SelectSeq(table.cols, IsDayCol)

(* Some row of the sales table matches the requested pair. *)
PairPresent(l) ==
  LET t == SalesOf(l)
  IN  /\ HasCol(t, "item_id")
      /\ HasCol(t, "store_id")
      /\ \E i \in DOMAIN t.rows :
           /\ t.rows[i].item_id = l.key.arg[1]
           /\ t.rows[i].store_id = l.key.arg[2]

BothSynthetic(l) ==
  /\ l.result.content[1].origin = "dummy"
  /\ l.result.content[2].origin = "dummy"

(* C16: sales and calendar cover the same horizon.  For a pair present in  *)
(* the sales table the number of points returned equals the number of      *)
(* calendar rows, and with both tables synthetic the sales table has one   *)
(* value column per calendar row.                                          *)
C16_SameHorizon ==
  (last.op = "get_product_time_series" /\ PairPresent(last))
    => /\ Len(SeriesOf(last).rows) = Len(CalendarOf(last).rows)
       /\ BothSynthetic(last)
            => Len(DayColumns(SalesOf(last))) = Len(CalendarOf(last).rows)

(* C17: the synthetic test-results table is fixed: ten tests, 7 PASS and   *)
(* 3 FAIL, the same for every sample path, and with no test-results file   *)
(* get_summary_statistics reports a test success rate equal to 0.70.       *)
C17_FixedTestPanel ==
  (/\ last.op = "get_summary_statistics"
   /\ files[PathOf(K_test_results)] = "missing")
    => LET t == TableOf(K_test_results, last.result.content[2])
           status(v) == { i \in DOMAIN t.rows : t.rows[i].status = v }
           rate == SummaryOf(last).test_success_rate
       IN  /\ Len(t.rows) = 10
           /\ Cardinality(status("PASS")) = 7
           /\ Cardinality(status("FAIL")) = 3
           /\ \A s \in Seeds :
                TableOf(K_test_results, DummyHandle(s)) = t
           /\ last.advisory = "none"
           /\ rate.den > 0
           /\ rate.num * 100 = 70 * rate.den

C17_Witness ==
  /\ last.op = "get_summary_statistics"
  /\ files[PathOf(K_test_results)] = "missing"
  /\ last.result.content[2].origin = "dummy"
  /\ last.result.content[1].origin = "file"
  /\ SummaryOf(last).test_success_rate = Frac(7, 10)

(* C18: for a pair present in the loaded sales table with N day columns,   *)
(* and any loaded calendar table, get_product_time_series returns exactly  *)
(* N points.                                                               *)
C18_SeriesLength ==
  (last.op = "get_product_time_series" /\ PairPresent(last))
    => Len(SeriesOf(last).rows) = Len(DayColumns(SalesOf(last)))

(* C19: get_product_time_series returns an empty table only when no sales  *)
(* row matches the requested pair.                                         *)
C19_EmptyMeansAbsent ==
  (last.op = "get_product_time_series" /\ Len(SeriesOf(last).rows) = 0)
    => ~PairPresent(last)

(* C20: for a pair with no matching row in the loaded sales table,         *)
(* get_product_time_series returns an empty table and raises nothing.      *)
C20_AbsentPairEmpty ==
  (last.op = "get_product_time_series" /\ ~PairPresent(last))
    => /\ Len(SeriesOf(last).rows) = 0
       /\ last.exc = "none"

C20_Witness ==
  /\ last.op = "get_product_time_series"
  /\ ~PairPresent(last)
  /\ Len(SalesOf(last).rows) > 0
  /\ HasCol(SalesOf(last), "store_id")
  /\ last.advisory = "none"
  /\ last.exc = "none"
  /\ Len(SeriesOf(last).rows) = 0

MergeCols == <<"d", "date", "wday", "month", "year", "snap_CA", "snap_TX", "snap_WI">>

(* The calendar holds every column the merge selects. *)
MergeReady(l) == \A c \in Range(MergeCols) : HasCol(CalendarOf(l), c)

CalendarKeys(l) == { CalendarOf(l).rows[i].d : i \in DOMAIN CalendarOf(l).rows }

(* The sales row of the requested pair. *)
SalesRowOf(l) ==
  SalesOf(l).rows[CHOOSE i \in DOMAIN SalesOf(l).rows :
                    /\ SalesOf(l).rows[i].item_id = l.key.arg[1]
                    /\ SalesOf(l).rows[i].store_id = l.key.arg[2]]

C21_WitnessExtraKeys ==
  /\ last.op = "get_product_time_series"
  /\ PairPresent(last)
  /\ files[CALENDAR_FILE] = "missing"
  /\ files[SALES_TRAIN_FILE] = "sales_foods"
  /\ Len(CalendarOf(last).rows) = 1969
  /\ Len(SeriesOf(last).rows) = 2

(* C22: the points returned are in chronological order.  Of two            *)
(* consecutive points the first is never dated later than the second, and  *)
(* a point without a date (no calendar row for its key) never precedes a   *)
(* dated one.                                                              *)
C22_Chronological ==
  last.op = "get_product_time_series"
    => LET pts == SeriesOf(last).rows
       IN  \A i \in 1..(Len(pts) - 1) :
             /\ pts[i].date = <<>> => pts[i + 1].date = <<>>
             /\ (pts[i].date # <<>> /\ pts[i + 1].date # <<>>)
                  => pts[i].date[1] <= pts[i + 1].date[1]

(* The merge yields the undated point of d_1 first; sorting moves it last. *)
C22_Witness ==
  /\ last.op = "get_product_time_series"
  /\ files[CALENDAR_FILE] = "calendar_late"
  /\ files[SALES_TRAIN_FILE] = "sales_foods"
  /\ Len(SeriesOf(last).rows) = 2
  /\ SeriesOf(last).rows[1].d = "d_2"
  /\ SeriesOf(last).rows[1].date # <<>>
  /\ SeriesOf(last).rows[2].d = "d_1"
  /\ SeriesOf(last).rows[2].date = <<>>

(* C23: every point returned carries a non-negative sales value, whatever  *)
(* sales table load_sales_data returned.                                   *)
C23_NonNegativeSales ==
  last.op = "get_product_time_series"
    => LET pts == SeriesOf(last).rows
       IN  \A i \in DOMAIN pts : pts[i].sales >= 0

(* The test-results table the last summary was computed from. *)
TestsOf(l) == TableOf(K_test_results, l.result.content[2])

PassCount(t) ==
  Cardinality({ i \in DOMAIN t.rows : t.rows[i].status = "PASS" })

(* The fractions a and b denote the same number. *)
SameRate(a, b) == a.den > 0 /\ b.den > 0 /\ a.num * b.den = b.num * a.den

(* C24: the success rate of the summary is the share of test-results rows  *)
(* whose status is PASS; when the table has no status column or no rows it *)
(* is the configured default 0.70.                                         *)
C24_SuccessRate ==
  last.op = "get_summary_statistics"
    => LET t == TestsOf(last)
           rate == SummaryOf(last).test_success_rate
       IN  IF HasCol(t, "status") /\ Len(t.rows) > 0
           THEN SameRate(rate, Frac(PassCount(t), Len(t.rows)))
           ELSE SameRate(rate, Frac(70, 100))

(* The summary over a test-results file with one PASS row of two. *)
C24_Witness ==
  /\ last.op = "get_summary_statistics"
  /\ files[TEST_SUMMARY_FILE] = "tests_valid"
  /\ last.advisory = "none"
  /\ SummaryOf(last).test_success_rate = Frac(1, 2)

(* The summary over test results without a status column, and without rows. *)
C24_WitnessDefault ==
  /\ last.op = "get_summary_statistics"
  /\ files[TEST_SUMMARY_FILE] \in { "tests_no_status", "tests_header" }
  /\ TestsOf(last).rows = <<>> \/ ~HasCol(TestsOf(last), "status")
  /\ SummaryOf(last).test_success_rate = Frac(70, 100)

(* The summary over the built-in panel: 7 PASS of 10. *)
C24_WitnessPanel ==
  /\ last.op = "get_summary_statistics"
  /\ files[TEST_SUMMARY_FILE] = "missing"
  /\ SummaryOf(last).test_success_rate = Frac(7, 10)

(* The number of (product, day) cells of table t that are zero. *)
ZeroCells(t) ==
  LET days == Range(DayColumns(t))
      RECURSIVE total(_)
      total(i) ==
        IF i = 0 THEN 0
        ELSE Cardinality({ c \in days : t.rows[i][c] = 0 }) + total(i - 1)
  IN  total(Len(t.rows))

(* C25: the zero-inflation rate of the summary is a number between 0 and 1, *)
(* the share of the (product, day) cells of the loaded sales table that are *)
(* zero, also when that table has no rows or no day columns.                *)
C25_ZeroInflationRate ==
  last.op = "get_summary_statistics"
    => LET rate == SummaryOf(last).zero_inflation_rate
       IN  /\ rate.den > 0
           /\ 0 <= rate.num /\ rate.num <= rate.den
           /\ LET t == SalesOf(last)
              IN  rate = Frac(ZeroCells(t), Len(t.rows) * Len(DayColumns(t)))

SummaryKeys ==
  { "total_products", "zero_inflation_rate", "test_success_rate", "category" }

DerivedOps == { "get_product_time_series", "get_summary_statistics" }

(* The datasets a derived operation loads. *)
LoadedBy(op) ==
  IF op = "get_product_time_series" THEN { K_sales_train, K_calendar }
  ELSE { K_sales_train, K_test_results }

(* C27: a call of get_product_time_series or get_summary_statistics runs   *)
(* its body each time, leaves no cache entry under its own name, leaves    *)
(* every valid cache entry as it was, and writes only the entries of the   *)
(* datasets it loads that were absent.                                     *)
C27_DerivedNotCached ==
  [][last'.op \in DerivedOps
       => /\ last'.executed
          /\ last'.key \notin DOMAIN cache'
          /\ DOMAIN cache' = DOMAIN cache
          /\ \A k \in Keys :
               IF k \in LoadedBy(last'.op) /\ ~Valid(cache[k], now)
               THEN cache'[k].present /\ cache'[k].ts = now
               ELSE cache'[k] = cache[k]]_vars

(* A product series on a session that had the sales table cached and not   *)
(* the calendar: the sales entry is as it was, the calendar entry is       *)
(* written, the series has no entry.                                       *)
C27_Witness ==
  /\ last.op = "get_product_time_series"
  /\ last.executed
  /\ Valid(cache[K_sales_train], now) /\ cache[K_sales_train].ts < now
  /\ cache[K_sales_train].payload = last.result.content[1]
  /\ cache[K_calendar].present /\ cache[K_calendar].ts = now
  /\ last.key \notin DOMAIN cache

(* A summary on a session whose cached sales table has expired: the entry  *)
(* is written anew, the cached test results are served.                    *)
C27_WitnessSummary ==
  /\ last.op = "get_summary_statistics"
  /\ last.executed
  /\ now = CACHE_TTL
  /\ cache[K_sales_train].present /\ cache[K_sales_train].ts = now
  /\ ~cache[K_calendar].present
  /\ last.key \notin DOMAIN cache

(* Session s has returned from a call of key k. *)
Returned(s, k) == sessions[s].pc = "done" /\ sessions[s].key = k

(* C28: when sessions call the loader of one key in overlapping calls and  *)
(* its file is absent, the substitute table is generated by one call only; *)
(* every call that returns within the time-to-live of that generation, the *)
(* overlapping ones included, returns that table and generates none.       *)
C28_GeneratedOnce ==
  \A k \in SharedKeys : \A g \in Sessions : \A s \in Sessions :
    ( /\ Returned(g, k) /\ sessions[g].executed
      /\ Returned(s, k)
      /\ sessions[g].at <= sessions[s].at
      /\ sessions[s].at - sessions[g].at < CACHE_TTL )
      => /\ TableOf(k, sessions[s].result) = TableOf(k, sessions[g].result)
         /\ sessions[s].executed => s = g

(* Two sessions missed the calendar at the same moment: one generated it,  *)
(* the other waited and was handed the same table.                         *)
C28_Witness ==
  \E g \in Sessions : \E s \in Sessions \ {g} :
    /\ Returned(g, K_calendar) /\ sessions[g].executed
    /\ Returned(s, K_calendar) /\ sessions[s].missed /\ ~sessions[s].executed
    /\ sessions[s].at = sessions[g].at
    /\ sessions[s].result = sessions[g].result
    /\ sessions[g].result.origin = "dummy"
    /\ files[CALENDAR_FILE] = "missing"

(* C29: the entries belong to the process, not to a DataLoader instance:   *)
(* a call returns the valid entry of its key whichever instance wrote it   *)
(* and runs the body only when there is none; clear_cache on any instance  *)
(* leaves no entry for anyone; and the _cache dictionary of every instance *)
(* is empty throughout.                                                    *)
C29_ProcessWideCache ==
  [][/\ \A s \in Sessions : sessions'[s]._cache = {}
     /\ \A s \in Sessions :
          (sessions[s].pc # "done" /\ sessions'[s].pc = "done")
            => LET k == sessions'[s].key
               IN  IF Valid(cache[k], now)
                   THEN /\ sessions'[s].result = cache[k].payload
                        /\ ~sessions'[s].executed
                   ELSE sessions'[s].executed
     /\ last'.op = "clear_cache" => \A k \in Keys : ~cache'[k].present]_vars

(* The calendar generated for one session is handed to another that asks   *)
(* for it later.                                                           *)
C29_Witness ==
  \E g \in Sessions : \E s \in Sessions \ {g} :
    /\ Returned(g, K_calendar) /\ sessions[g].executed
    /\ Returned(s, K_calendar) /\ ~sessions[s].missed /\ ~sessions[s].executed
    /\ sessions[s].result = sessions[g].result
    /\ cache[K_calendar].payload = sessions[s].result

(* After a Refresh Data in between, the calendar is generated again for    *)
(* another session.                                                        *)
C29_WitnessCleared ==
  \E g \in Sessions : \E s \in Sessions \ {g} :
    /\ Returned(g, K_calendar) /\ sessions[g].executed
    /\ Returned(s, K_calendar) /\ sessions[s].executed
    /\ K_calendar \notin cleared

(* The keys of file_mapping. *)
PatternKeys == { Chars_seasonal, Chars_zero_inflation, Chars_volume, Chars_snap }

(* What the Pattern Analysis page makes of "Volume Distribution" and        *)
(* "SNAP Effects": lower(), then '-' and ' ' replaced by '_'.               *)
Chars_volume_distribution ==
  <<"v", "o", "l", "u", "m", "e", "_", "d", "i", "s", "t", "r", "i", "b", "u", "t", "i", "o", "n">>

Chars_snap_effects ==
  <<"s", "n", "a", "p", "_", "e", "f", "f", "e", "c", "t", "s">>

PatternExampleCols ==
  <<"item_id", "store_id", "pattern_strength", "avg_sales", "zero_rate">>

(* C30: load_pattern_examples raises nothing; it returns the parsed file   *)
(* exactly when its key in lower case is seasonal, zero_inflation, volume  *)
(* or snap and the file of that kind exists and parses, and otherwise the  *)
(* generated table of 20 rows and five fixed columns, with a warning or an *)
(* error shown.  The page's keys seasonality, volume_distribution and      *)
(* snap_effects are none of the four.                                      *)
C30_PatternExamples ==
  /\ \A a \in { Chars_seasonality, Chars_volume_distribution, Chars_snap_effects } :
       lower(a) \notin PatternKeys /\ file_mapping(lower(a)) = "None"
  /\ (last.op = "load" /\ last.key.fn = "load_pattern_examples")
       => LET key == lower(last.key.arg)
              t == LastTable
          IN  /\ last.exc = "none"
              /\ IF /\ key \in PatternKeys
                    /\ exists(files[file_mapping(key)])
                    /\ read_csv(files[file_mapping(key)]).exc = "none"
                 THEN /\ last.result.origin = "file"
                      /\ last.advisory = "none"
                      /\ t = read_csv(files[file_mapping(key)]).table
                 ELSE /\ last.result.origin = "dummy"
                      /\ last.advisory \in { "warning", "error" }
                      /\ Len(t.rows) = 20
                      /\ t.cols = PatternExampleCols

(* The key 'SNAP' with the SNAP examples file in place: the file is read. *)
C30_Witness ==
  /\ last.op = "load" /\ last.key = Key("load_pattern_examples", Chars_SNAP)
  /\ files[SNAP_EXAMPLES_FILE] = "pattern_valid"
  /\ last.result.origin = "file" /\ last.advisory = "none"
  /\ Len(LastTable.rows) > 0

(* The page's key 'seasonality' with the seasonal examples file in place:  *)
(* the generated table, with a warning.                                    *)
C30_WitnessPageKey ==
  /\ last.op = "load" /\ last.key = Key("load_pattern_examples", Chars_seasonality)
  /\ files[SEASONAL_EXAMPLES_FILE] = "pattern_valid"
  /\ last.result.origin = "dummy" /\ last.advisory = "warning"
  /\ Len(LastTable.rows) = 20

(* The key 'SNAP' with a file that does not parse: the generated table,    *)
(* with an error.                                                          *)
C30_WitnessFailure ==
  /\ last.op = "load" /\ last.key = Key("load_pattern_examples", Chars_SNAP)
  /\ files[SNAP_EXAMPLES_FILE] = "malformed"
  /\ last.result.origin = "dummy" /\ last.advisory = "error"

====
